---- MODULE Spec2Model ----
(***************************************************************************)
(* Model of tianditu-tools/utils.py: the status classifier, the latency    *)
(* prober, the concurrent latency surveyor (a 4-thread pool), the token    *)
(* validator, the nearest-index helper and the Geo API client.             *)
(*                                                                         *)
(* Strings whose content matters are sequences of one-character strings.  *)
(* A call's outcome is a record: [kind |-> "return", value |-> v] or       *)
(* [kind |-> "raise", exc |-> e] when an exception leaves the function.    *)
(***************************************************************************)
EXTENDS Integers, Sequences, FiniteSets, TLC

VARIABLES
    call,       \* single calls: the call being made, [op |-> ..., its arguments]
    outcome,    \* single calls: NoOutcome before the call, then what it gave
    gets,       \* single calls: the HTTP GET requests the call issued, in order
    caller,     \* survey: the thread that calls check_subdomains
    pools,      \* survey: every ThreadPool created so far, by pool id
    job,        \* survey: the MapResult of the caller's pool.map
    probed      \* survey: per URL of the call, the probes sent and what the probe gave

vars == <<call, outcome, gets, caller, pools, job, probed>>

----------------------------------------------------------------------------
(* Bounds of the model *)

\* longest url_list handed to check_subdomains
MaxUrls == 5
\* number of check_subdomains calls the caller makes
MaxCalls == 2
\* longest numbers_list handed to find_nearest_number_index
MaxList == 3
\* keys up to correct_length + MaxKeyExtra characters are tried
MaxKeyExtra == 1

----------------------------------------------------------------------------
(* Values *)

NoOutcome == [kind |-> "none"]
Return(v) == [kind |-> "return", value |-> v]
Raise(e) == [kind |-> "raise", exc |-> e]

\* Python's None
None == "None"

\* floats: float("inf"), or a finite number
Inf == [inf |-> TRUE, v |-> 0]
Num(x) == [inf |-> FALSE, v |-> x]

\* str(n) for an integer n, as a sequence of characters
RECURSIVE NatStr(_)
NatStr(n) ==
    LET d == <<"0", "1", "2", "3", "4", "5", "6", "7", "8", "9">>[(n % 10) + 1]
    IN IF n < 10 THEN <<d>> ELSE Append(NatStr(n \div 10), d)

IntStr(n) == IF n < 0 THEN <<"-">> \o NatStr(-n) ELSE NatStr(n)

\* Python's `sub in s` for strings
Contains(s, sub) ==
    \E k \in 0..(Len(s) - Len(sub)) :
        \A j \in 1..Len(sub) : s[k + j] = sub[j]

----------------------------------------------------------------------------
(* The HTTP transport: what requests.get(url, ..., timeout=t) can give.    *)
(* Either a response (status code, elapsed time in microseconds, body) or  *)
(* an exception.  The body is a JSON object holding some of the fields     *)
(* code, msg, resolve, or text that is not JSON at all.                    *)

StatusCodes == {200, 204, 302, 403, 404, 500}

\* response.elapsed, in microseconds
Elapsed == {0, 999, 57000, 1001000, 7999999}

BodyFields == {"code", "msg", "resolve"}

BodyCodes == {1, 12}
BodyMsgs == {<<"b", "a", "d">>}
BodyResolves == {<<"n", "e", "w">>, <<>>}

\* JSON objects with any subset of the three fields
JsonObjects ==
    { [f \in fs |-> IF f = "code" THEN c ELSE IF f = "msg" THEN m ELSE r] :
        fs \in SUBSET BodyFields, c \in BodyCodes, m \in BodyMsgs, r \in BodyResolves }

JsonBodies == { [type |-> "json", obj |-> o] : o \in JsonObjects }

\* a body that is no JSON text (an HTML error page, an image tile)
NotJson == [type |-> "other", obj |-> [f \in {} |-> 0]]

Bodies == JsonBodies \cup {NotJson}

Response(s, e, b) == [kind |-> "response", status_code |-> s, elapsed |-> e, body |-> b]

\* exceptions requests.get raises: requests.exceptions.* and, for a timeout
\* of the socket that no layer wrapped, the builtin TimeoutError
TransportErrors == {"ConnectTimeout", "ReadTimeout", "ConnectionError", "TimeoutError"}

\* requests.get raising e
Failure(e) == [kind |-> "raise", exc |-> e]

\* is exception e an instance of class c: none of the requests exceptions
\* derives from the builtin TimeoutError, nor do KeyError and JSONDecodeError
IsInstance(e, c) == e = c

\* res.json(): the parsed body, or JSONDecodeError
json(res) ==
    IF res.body.type = "json" THEN Return(res.body.obj) ELSE Raise("JSONDecodeError")

\* d[k] on a parsed body
GetItem(d, k) == IF k \in DOMAIN d THEN Return(d[k]) ELSE Raise("KeyError")

\* res.ok: raise_for_status() would not raise
ok(res) == res.status_code < 400

----------------------------------------------------------------------------
(* check_url_status *)

\* the two Chinese literals of lines 79 and 80 ("unknown error " and
\* "error code:"), one pinyin syllable standing for each character
UnknownErrorMsg == <<"wei", "zhi", "cuo", "wu", " ">>
ErrorCodePrefix == <<"cuo", "wu", "dai", "ma", ":">>

\* ClassifyStatus with line 74 reading the body's msg instead of its resolve
ClassifyStatusResolveFromMsg(res) ==
    IF res.status_code = 403 THEN
        LET j == json(res) IN
        IF j.kind = "raise" THEN j
        ELSE LET c == GetItem(j.value, "code")
                 m == GetItem(j.value, "msg")
             IN IF c.kind = "raise" THEN c
                ELSE IF m.kind = "raise" THEN m
                ELSE Return([code |-> c.value, msg |-> m.value, resolve |-> m.value])
    ELSE IF res.status_code = 200 THEN Return([code |-> 0])
    ELSE Return([code |-> 1000, msg |-> UnknownErrorMsg,
                 resolve |-> ErrorCodePrefix \o IntStr(res.status_code)])

\* the status classification once requests.get has returned res
ClassifyStatus(res) ==
    IF res.status_code = 403 THEN
        LET j == json(res) IN
        IF j.kind = "raise" THEN j
        ELSE LET c == GetItem(j.value, "code")
                 m == GetItem(j.value, "msg")
                 r == GetItem(j.value, "resolve")
             IN IF c.kind = "raise" THEN c
                ELSE IF m.kind = "raise" THEN m
                ELSE IF r.kind = "raise" THEN r
                ELSE Return([code |-> c.value, msg |-> m.value, resolve |-> r.value])
    ELSE IF res.status_code = 200 THEN Return([code |-> 0])
    ELSE Return([code |-> 1000, msg |-> UnknownErrorMsg,
                 resolve |-> ErrorCodePrefix \o IntStr(res.status_code)])

\* t is what requests.get gave: a response or an exception, which propagates
check_url_status(t) == IF t.kind = "raise" THEN t ELSE ClassifyStatus(t)

----------------------------------------------------------------------------
(* check_subdomain *)

\* the values of Elapsed whose product total_seconds() * 1000, computed in
\* double precision, falls just below the whole number of milliseconds
\* (1.001 * 1000 is 1000.9999999999999)
RoundsBelow == {1001000}

\* int(response.elapsed.total_seconds() * 1000): the product, truncated
Millisecond(us) == IF us \in RoundsBelow THEN (us \div 1000) - 1 ELSE us \div 1000

check_subdomain(t) ==
    IF t.kind = "raise" THEN t
    ELSE IF t.status_code = 200 THEN Return(Millisecond(t.elapsed))
    ELSE Return(-1)

----------------------------------------------------------------------------
(* check_key_format *)

correct_length == 32

Letters == {"a", "Z"}
Digits == {"0", "7"}
Specials == {"-", " "}

\* str.isalnum(): every character is alphanumeric and there is at least one
isalnum(s) == Len(s) > 0 /\ \A i \in 1..Len(s) : s[i] \in Letters \cup Digits

check_key_format(key) ==
    LET key_length == Len(key)
        key_length_error == IF key_length # correct_length THEN TRUE ELSE FALSE
    IN Return([key_length_error |-> key_length_error,
               has_special_character |-> ~isalnum(key)])

----------------------------------------------------------------------------
(* find_nearest_number_index *)

Abs(x) == IF x < 0 THEN -x ELSE x

\* Less with <= in place of <
LessOrEqual(difference, min_difference) ==
    min_difference.inf \/ difference <= min_difference.v

\* difference < min_difference, where min_difference starts as float("inf")
Less(difference, min_difference) ==
    min_difference.inf \/ difference < min_difference.v

\* the loop, after the first k entries: [min_difference, nearest_index]
RECURSIVE NearestLoop(_, _, _)
NearestLoop(numbers_list, target, k) ==
    IF k = 0 THEN [min_difference |-> Inf, nearest_index |-> None]
    ELSE LET prev == NearestLoop(numbers_list, target, k - 1)
             difference == Abs(numbers_list[k] - target)
         IN IF Less(difference, prev.min_difference)
            THEN [min_difference |-> Num(difference), nearest_index |-> k - 1]
            ELSE prev

\* indexes are Python's: the first entry has index 0
find_nearest_number_index(numbers_list, target) ==
    Return(NearestLoop(numbers_list, target, Len(numbers_list)).nearest_index)

----------------------------------------------------------------------------
(* TiandituAPI *)

ApiTimeout == 8

\* TiandituAPI.get, t being what the one requests.get call gave
get(t) ==
    IF t.kind = "raise" THEN
        IF IsInstance(t.exc, "TimeoutError")
        THEN Return([code |-> -1, message |-> t.exc])
        ELSE t
    ELSE IF ok(t) THEN
        LET j == json(t) IN
        IF j.kind = "raise" THEN
            IF IsInstance(j.exc, "TimeoutError")
            THEN Return([code |-> -1, message |-> j.exc])
            ELSE j
        ELSE Return([code |-> 1, data |-> j.value])
    ELSE Return([code |-> -1, message |-> t.status_code])

api_search_v2(t) == get(t)
api_geocoder(t) == get(t)
api_regeocoder(t) == get(t)

SearchUrl == "http://api.tianditu.gov.cn/v2/search"
GeocoderUrl == "http://api.tianditu.gov.cn/geocoder"

----------------------------------------------------------------------------
(* Single calls of the functions that hold no state between calls.  The    *)
(* initial state draws the call and its arguments; for the functions that  *)
(* issue a request, the argument t is what the transport gives for it.     *)

Transports ==
    { Response(s, e, b) : s \in StatusCodes, e \in Elapsed, b \in Bodies }
    \cup { Failure(e) : e \in TransportErrors }

\* a key of n characters with a special character at the positions in S
Key(n, S) ==
    [i \in 1..n |-> IF i \in S THEN "-" ELSE IF i % 2 = 0 THEN "a" ELSE "7"]

SpecialPositions == {1, correct_length, correct_length + 1}

Keys ==
    { Key(n, S \cap (1..n)) :
        n \in 0..(correct_length + MaxKeyExtra), S \in SUBSET SpecialPositions }

Numbers == {-3, 0, 2, 5}
Targets == {-1, 1, 4}

NumberLists == UNION { [1..n -> Numbers] : n \in 0..MaxList }

HttpOps == {"check_url_status", "check_subdomain",
            "api_search_v2", "api_geocoder", "api_regeocoder"}

SingleCalls ==
    { [op |-> o, t |-> t] : o \in HttpOps, t \in Transports }
    \cup { [op |-> "check_key_format", key |-> k] : k \in Keys }
    \cup { [op |-> "find_nearest_number_index", numbers_list |-> l, target |-> x] :
             l \in NumberLists, x \in Targets }

NoJob == [value |-> <<>>, number_left |-> 0, success |-> TRUE, error |-> NoOutcome]

NoCaller == [pc |-> "idle", calls |-> 0, pool |-> 0, n |-> 0, result |-> NoOutcome]

InitCalls ==
    /\ call \in SingleCalls
    /\ outcome = NoOutcome
    /\ gets = <<>>
    /\ caller = NoCaller
    /\ pools = <<>>
    /\ job = NoJob
    /\ probed = <<>>

Pending(o) == call.op = o /\ outcome = NoOutcome

CheckUrlStatus ==
    /\ Pending("check_url_status")
    /\ gets' = Append(gets, [url |-> "url", timeout |-> 10])
    /\ outcome' = check_url_status(call.t)
    /\ UNCHANGED <<call, caller, pools, job, probed>>

CheckSubdomain ==
    /\ Pending("check_subdomain")
    /\ gets' = Append(gets, [url |-> "url", timeout |-> 8])
    /\ outcome' = check_subdomain(call.t)
    /\ UNCHANGED <<call, caller, pools, job, probed>>

CheckKeyFormat ==
    /\ Pending("check_key_format")
    /\ outcome' = check_key_format(call.key)
    /\ UNCHANGED <<call, gets, caller, pools, job, probed>>

FindNearestNumberIndex ==
    /\ Pending("find_nearest_number_index")
    /\ outcome' = find_nearest_number_index(call.numbers_list, call.target)
    /\ UNCHANGED <<call, gets, caller, pools, job, probed>>

ApiSearchV2 ==
    /\ Pending("api_search_v2")
    /\ gets' = Append(gets, [url |-> SearchUrl, timeout |-> ApiTimeout])
    /\ outcome' = api_search_v2(call.t)
    /\ UNCHANGED <<call, caller, pools, job, probed>>

ApiGeocoder ==
    /\ Pending("api_geocoder")
    /\ gets' = Append(gets, [url |-> GeocoderUrl, timeout |-> ApiTimeout])
    /\ outcome' = api_geocoder(call.t)
    /\ UNCHANGED <<call, caller, pools, job, probed>>

ApiRegeocoder ==
    /\ Pending("api_regeocoder")
    /\ gets' = Append(gets, [url |-> GeocoderUrl, timeout |-> ApiTimeout])
    /\ outcome' = api_regeocoder(call.t)
    /\ UNCHANGED <<call, caller, pools, job, probed>>

NextCalls ==
    \/ CheckUrlStatus
    \/ CheckSubdomain
    \/ CheckKeyFormat
    \/ FindNearestNumberIndex
    \/ ApiSearchV2
    \/ ApiGeocoder
    \/ ApiRegeocoder

SpecCalls == InitCalls /\ [][NextCalls]_vars

----------------------------------------------------------------------------
(* check_subdomains: the caller thread, the ThreadPool of each call and    *)
(* the MapResult that pool.map waits for.                                  *)
(*                                                                         *)
(* A pool holds its queue of tasks (indexes into url_list: for the lists   *)
(* of up to 16 URLs pool.map makes one task per URL), the tasks its        *)
(* worker threads are running, and the number of workers that have exited. *)
(* The MapResult holds one slot per URL; a task that raised replaces the   *)
(* slots by the first exception, and the result is ready only once every   *)
(* task is done.                                                           *)

PoolSize == 4

\* "X" stands for the cross mark of line 114
CrossMark == <<"X">>

\* one entry of the list check_subdomains returns
Format(x) == IF x = -1 THEN CrossMark ELSE IntStr(x) \o <<" ", "m", "s">>

\* what the transport gives a probe of the survey
ProbeTransports ==
    {Response(200, 57000, NotJson), Response(403, 0, NotJson), Failure("ReadTimeout")}

Unset == [set |-> FALSE, v |-> 0]
Set(x) == [set |-> TRUE, v |-> x]

\* ThreadPool(4)
NewPool(n) == [state |-> "RUN", tasks |-> [i \in 1..n |-> i], running |-> {}, exited |-> 0]

\* IdleWorkers forgetting the workers that are running a task
IdleWorkersIgnoringRunning(pool) == PoolSize - pool.exited

\* worker threads of the pool that are waiting for a task
IdleWorkers(pool) == PoolSize - pool.exited - Cardinality(pool.running)

\* SetValue filling the slots in the order the tasks complete
SetValueInCompletionOrder(value, i, x) ==
    LET k == CHOOSE m \in DOMAIN value :
                 ~value[m].set /\ \A l \in 1..(m - 1) : value[l].set
    IN [value EXCEPT ![k] = Set(x)]

\* MapResult._set for a task that returned x: the slot of the task's index
SetValue(value, i, x) == [value EXCEPT ![i] = Set(x)]

\* MapResult._set(i, (success, result))
MapResultSet(j, i, r) ==
    IF r.kind = "return" /\ j.success
    THEN [j EXCEPT !.value = SetValue(j.value, i, r.value),
                   !.number_left = j.number_left - 1]
    ELSE IF r.kind = "raise" /\ j.success
    THEN [j EXCEPT !.success = FALSE, !.error = r,
                   !.value = [k \in DOMAIN j.value |-> Unset],
                   !.number_left = j.number_left - 1]
    ELSE [j EXCEPT !.number_left = j.number_left - 1]

\* the MapResult's event is set
Ready(j) == j.number_left = 0

\* every worker thread has exited: what pool.join() waits for
Joined(pool) == pool.exited = PoolSize

Init ==
    /\ call = [op |-> "check_subdomains"]
    /\ outcome = NoOutcome
    /\ gets = <<>>
    /\ caller = NoCaller
    /\ pools = <<>>
    /\ job = NoJob
    /\ probed = <<>>

\* lines 110-111: a new pool, and pool.map queues one task per URL and waits
Call(n) ==
    /\ caller.pc \in {"idle", "returned", "raised"}
    /\ caller.calls < MaxCalls
    /\ pools' = Append(pools, NewPool(n))
    /\ job' = [value |-> [i \in 1..n |-> Unset], number_left |-> n,
               success |-> TRUE, error |-> NoOutcome]
    /\ probed' = [i \in 1..n |-> [count |-> 0, ret |-> NoOutcome]]
    /\ caller' = [pc |-> "map", calls |-> caller.calls + 1, pool |-> Len(pools) + 1,
                  n |-> n, result |-> NoOutcome]
    /\ UNCHANGED <<call, outcome, gets>>

\* a waiting worker takes the task at the head of the queue and sends the
\* probe's request (line 93)
TakeTask(p) ==
    /\ pools[p].state # "TERMINATE"
    /\ pools[p].tasks # <<>>
    /\ IdleWorkers(pools[p]) > 0
    /\ LET i == Head(pools[p].tasks) IN
        /\ pools' = [pools EXCEPT ![p].tasks = Tail(@), ![p].running = @ \cup {i}]
        /\ probed' = [probed EXCEPT ![i].count = @ + 1]
    /\ UNCHANGED <<call, outcome, gets, caller, job>>

\* the request of probe i ends with t (lines 93-98) and the worker hands
\* what check_subdomain gave to the MapResult
ProbeDone(p, i, t) ==
    /\ i \in pools[p].running
    /\ LET r == check_subdomain(t) IN
        /\ job' = MapResultSet(job, i, r)
        /\ probed' = [probed EXCEPT ![i].ret = r]
    /\ pools' = [pools EXCEPT ![p].running = @ \ {i}]
    /\ UNCHANGED <<call, outcome, gets, caller>>

\* line 111: pool.map returns the list of the slots
MapReturn ==
    /\ caller.pc = "map"
    /\ Ready(job)
    /\ job.success
    /\ caller' = [caller EXCEPT !.pc = "close",
                     !.result = Return([i \in 1..caller.n |-> job.value[i].v])]
    /\ UNCHANGED <<call, outcome, gets, pools, job, probed>>

\* line 111: pool.map raises the first exception of a task; it leaves
\* check_subdomains, and lines 112-114 are not run
MapRaise ==
    /\ caller.pc = "map"
    /\ Ready(job)
    /\ ~job.success
    /\ caller' = [caller EXCEPT !.pc = "raised", !.result = job.error]
    /\ UNCHANGED <<call, outcome, gets, pools, job, probed>>

\* line 112
Close ==
    /\ caller.pc = "close"
    /\ pools' = [pools EXCEPT ![caller.pool].state = "CLOSE"]
    /\ caller' = [caller EXCEPT !.pc = "join"]
    /\ UNCHANGED <<call, outcome, gets, job, probed>>

\* a waiting worker of a closed or terminated pool finds the queue empty
\* and exits
WorkerExit(p) ==
    /\ pools[p].state \in {"CLOSE", "TERMINATE"}
    /\ pools[p].tasks = <<>>
    /\ IdleWorkers(pools[p]) > 0
    /\ pools' = [pools EXCEPT ![p].exited = @ + 1]
    /\ UNCHANGED <<call, outcome, gets, caller, job, probed>>

\* lines 113-114: pool.join() returns once every worker has exited, and
\* the list is formatted and returned
JoinAndReturn ==
    /\ caller.pc = "join"
    /\ Joined(pools[caller.pool])
    /\ caller' = [caller EXCEPT !.pc = "returned",
                     !.result = Return([i \in 1..caller.n |-> Format(@.value[i])])]
    /\ UNCHANGED <<call, outcome, gets, pools, job, probed>>

\* a pool left running by a call that raised is no longer referenced; when
\* it is collected its finalizer terminates it
Terminate(p) ==
    /\ pools[p].state = "RUN"
    /\ ~(caller.pool = p /\ caller.pc \in {"map", "close", "join"})
    /\ pools' = [pools EXCEPT ![p].state = "TERMINATE", ![p].tasks = <<>>]
    /\ UNCHANGED <<call, outcome, gets, caller, job, probed>>

Worker ==
    \E p \in DOMAIN pools :
        \/ TakeTask(p)
        \/ \E i \in pools[p].running, t \in ProbeTransports : ProbeDone(p, i, t)
        \/ WorkerExit(p)

Next ==
    \/ \E n \in 0..MaxUrls : Call(n)
    \/ \E p \in DOMAIN pools : TakeTask(p)
    \/ \E p \in DOMAIN pools :
           \E i \in pools[p].running, t \in ProbeTransports : ProbeDone(p, i, t)
    \/ \E p \in DOMAIN pools : WorkerExit(p)
    \/ MapReturn
    \/ MapRaise
    \/ Close
    \/ JoinAndReturn
    \/ \E p \in DOMAIN pools : Terminate(p)

Spec == Init /\ [][Next]_vars

\* the worker threads keep running, every request ends (each has its
\* timeout), and the caller thread runs when it is not blocked
FairSpec ==
    /\ Spec
    /\ WF_vars(Worker)
    /\ WF_vars(MapReturn)
    /\ WF_vars(MapRaise)
    /\ WF_vars(Close)
    /\ WF_vars(JoinAndReturn)

----------------------------------------------------------------------------
(* Properties of the single calls (specification SpecCalls) *)

Done(o) == call.op = o /\ outcome # NoOutcome

IsResponse(t) == t.kind = "response"

\* C2: check_subdomain never raises: on HTTP 200 it returns a non-negative
\* integer number of milliseconds, and on any other response, on timeout
\* and on any transport failure it returns exactly -1.
C2_ProbeNeverRaises ==
    Done("check_subdomain") =>
        /\ outcome.kind = "return"
        /\ IF IsResponse(call.t) /\ call.t.status_code = 200
           THEN outcome.value \in Nat
           ELSE outcome.value = -1

\* C3: every Geo API Client operation issues exactly one GET and returns
\* the envelope {code: 1, data} for an HTTP-ok response and
\* {code: -1, message} for a non-ok status, a timeout or any other
\* transport failure; no exception reaches the caller.
C3_ApiAlwaysReturnsEnvelope ==
    (call.op \in {"api_search_v2", "api_geocoder", "api_regeocoder"}
     /\ outcome # NoOutcome) =>
        /\ Len(gets) = 1
        /\ outcome.kind = "return"
        /\ IF IsResponse(call.t) /\ ok(call.t)
           THEN outcome.value.code = 1 /\ DOMAIN outcome.value = {"code", "data"}
           ELSE outcome.value.code = -1 /\ DOMAIN outcome.value = {"code", "message"}

HasAllFields(t) == t.body.type = "json" /\ BodyFields \subseteq DOMAIN t.body.obj

\* C5: check_url_status classifies a response by its status code: 200
\* gives code 0 and no message; 403 gives the code, msg and resolve of the
\* body, unchanged; every other status gives code 1000 and a resolve text
\* that contains the status code.
C5_StatusClassified ==
    (Done("check_url_status") /\ IsResponse(call.t)) =>
        LET res == call.t IN
        /\ res.status_code = 200 => outcome = Return([code |-> 0])
        /\ (res.status_code = 403 /\ HasAllFields(res)) =>
              /\ outcome.kind = "return"
              /\ DOMAIN outcome.value = {"code", "msg", "resolve"}
              /\ outcome.value.code = res.body.obj["code"]
              /\ outcome.value.msg = res.body.obj["msg"]
              /\ outcome.value.resolve = res.body.obj["resolve"]
        /\ res.status_code \notin {200, 403} =>
              /\ outcome.kind = "return"
              /\ outcome.value.code = 1000
              /\ Contains(outcome.value.resolve, IntStr(res.status_code))

\* a 403 whose body carries code 12 and a msg that differs from its
\* resolve has been classified
C5_Witness ==
    /\ Done("check_url_status")
    /\ IsResponse(call.t)
    /\ call.t.status_code = 403
    /\ HasAllFields(call.t)
    /\ call.t.body.obj["code"] = 12
    /\ call.t.body.obj["msg"] # call.t.body.obj["resolve"]
    /\ outcome.kind = "return"

\* C6: check_url_status does not raise when the body of a 403 response
\* lacks code, msg or resolve, or is no JSON object: it still returns a
\* verdict.
C6_NoRaiseOnMissingFields ==
    (Done("check_url_status") /\ IsResponse(call.t) /\ call.t.status_code = 403) =>
        outcome.kind = "return"

\* C7: for every token, the empty one included, check_key_format returns
\* both fields without raising; key_length_error is true exactly when the
\* length is not 32 and has_special_character exactly when the token holds
\* at least one character outside the alphanumeric set.
C7_KeyFormatFlags ==
    Done("check_key_format") =>
        /\ outcome.kind = "return"
        /\ DOMAIN outcome.value = {"key_length_error", "has_special_character"}
        /\ outcome.value.key_length_error = (Len(call.key) # 32)
        /\ outcome.value.has_special_character =
              (\E i \in 1..Len(call.key) : call.key[i] \notin Letters \cup Digits)

Distance(l, i, x) == Abs(l[i] - x)

\* C8: for a non-empty list, find_nearest_number_index returns an index
\* whose entry is at the least absolute difference from the target, and
\* the smallest such index when several entries are at that difference.
C8_NearestFirstIndex ==
    (Done("find_nearest_number_index") /\ Len(call.numbers_list) > 0) =>
        LET l == call.numbers_list
            x == call.target
        IN /\ outcome.kind = "return"
           /\ outcome.value \in 0..(Len(l) - 1)
           /\ \A j \in 1..Len(l) : Distance(l, outcome.value + 1, x) <= Distance(l, j, x)
           /\ \A j \in 1..outcome.value : Distance(l, j, x) > Distance(l, outcome.value + 1, x)

\* the call has returned for a list where two entries are at the least
\* difference and an entry before them is farther away
C8_Witness ==
    /\ Done("find_nearest_number_index")
    /\ Len(call.numbers_list) = 3
    /\ LET l == call.numbers_list
           x == call.target
       IN /\ Distance(l, 2, x) = Distance(l, 3, x)
          /\ l[2] # l[3]
          /\ Distance(l, 1, x) > Distance(l, 2, x)
    /\ outcome = Return(1)

----------------------------------------------------------------------------
(* Properties of check_subdomains (specifications Spec and FairSpec) *)

ThePool == pools[caller.pool]

Ended == caller.pc \in {"returned", "raised"}

\* C1: the list check_subdomains returns has, at position i, the entry of
\* the probe of URL i: the cross mark when that probe returned -1,
\* "<milliseconds> ms" otherwise, whatever the order the probes completed.
C1_OutputFollowsInputOrder ==
    caller.pc = "returned" =>
        /\ caller.result.kind = "return"
        /\ Len(caller.result.value) = caller.n
        /\ \A i \in 1..caller.n :
              /\ probed[i].ret.kind = "return"
              /\ caller.result.value[i] =
                    IF probed[i].ret.value = -1
                    THEN CrossMark
                    ELSE IntStr(probed[i].ret.value) \o <<" ", "m", "s">>

\* three URLs, the probe of the second one failed and the others did not,
\* and the list has been returned
C1_Witness ==
    /\ caller.pc = "returned"
    /\ caller.n = 3
    /\ probed[2].ret = Return(-1)
    /\ probed[1].ret = Return(57)
    /\ probed[3].ret = Return(57)
    /\ caller.result = Return(<<<<"5", "7", " ", "m", "s">>, <<"X">>,
                                <<"5", "7", " ", "m", "s">>>>)

\* C4: when check_subdomains gives control back to its caller, every probe
\* of the survey has completed, every worker of its pool has been joined,
\* and the caller holds a list of exactly N entries.
C4_ReturnsOnlyAfterDrained ==
    Ended =>
        /\ ThePool.tasks = <<>>
        /\ ThePool.running = {}
        /\ Joined(ThePool)
        /\ caller.result.kind = "return"
        /\ Len(caller.result.value) = caller.n

C10_SurveyEventuallyReturns ==
    \A k \in 1..MaxCalls :
        (caller.calls = k /\ caller.pc = "map") ~> (caller.calls = k /\ caller.pc = "returned")

====
